---- MODULE Spec2Model ----
(***************************************************************************)
(* Model of fit_to_csv.py: the per-file extraction (sensor sample          *)
(* expansion, record walk with the self-report interval detector,          *)
(* process_to_csv) and the batch orchestrator (process_all_files).         *)
(*                                                                         *)
(* Representation of Python values:                                        *)
(*   - a dict (MessageTable, MessageRecord) is a function whose DOMAIN is  *)
(*     the set of keys present; dict.get(k, d) is Get(d, k, default);      *)
(*   - None is the empty tuple << >> and a value v that may be None is     *)
(*     <<v>> (the entries of heart_rates and developer_fields, the         *)
(*     Optional results of the extract functions, the output paths);       *)
(*   - a datetime is <<"datetime", n>>, n its epoch seconds (or            *)
(*     milliseconds for sensor samples); the string 'NAN' that marks an    *)
(*     open interval is <<"NAN", 0>>, so that both fit one column.         *)
(***************************************************************************)
EXTENDS Integers, Sequences, FiniteSets, TLC

VARIABLES
    \* ---- one walk of _extract_record_data_fast over a record stream ----
    record_messages,        \* records of self.messages['record_mesgs'] consumed so far
    has_record_mesgs,       \* 'record_mesgs' in self.messages
    timestamps,             \* list timestamps
    heart_rates,            \* list heart_rates
    developer_fields,       \* list developer_fields
    df_event_self_reports,  \* the self-report DataFrame, one row per interval
    is_event_active,        \* the detector state: TRUE = Active, FALSE = Idle
    walk_pc,                \* "off" | "loop" | "returned"
    walk_ret,               \* the value returned by _extract_record_data_fast
    \* ---- one run of process_all_files over a batch ----
    fit_files,              \* the files found by find_fit_files
    use_multiprocessing,    \* the argument of process_all_files
    batch_pc,               \* "off" | "start" | "sequential" | "pool" | "summary" | "done" | "raised"
    next_file,              \* sequential mode: index of the next file of the for loop
    future_state,           \* pool mode: per file "queued" | "running" | "finished" | "collected"
    unit_outcome,           \* per file: outcome of process_single_file, or NotRun
    written,                \* per file: the set of output tables written to disk
    success_count,          \* the counter success_count
    self_report_csv,        \* per file: the rows of <stem>_self_reports.csv, or None
    reported,               \* the last line printed: <<success_count, len(fit_files)>>, or << >>
    \* ---- one call of _extract_sensor_data_fast ----
    sensor_type,            \* the argument: "accelerometer" | "gyroscope"
    has_sensor_mesgs,       \* message_key in self.messages
    sensor_messages,        \* groups of self.messages[message_key] consumed so far
    all_rows,               \* all_timestamps, all_x, all_y, all_z, as one list of rows
    sensor_pc,              \* "off" | "loop" | "returned"
    sensor_ret              \* the value returned by _extract_sensor_data_fast

walk_vars == <<record_messages, has_record_mesgs, timestamps, heart_rates,
               developer_fields, df_event_self_reports, is_event_active,
               walk_pc, walk_ret>>
batch_vars == <<fit_files, use_multiprocessing, batch_pc, next_file, future_state,
                unit_outcome, written, self_report_csv, success_count, reported>>
sensor_vars == <<sensor_type, has_sensor_mesgs, sensor_messages, all_rows,
                 sensor_pc, sensor_ret>>
vars == <<walk_vars, batch_vars, sensor_vars>>

----------------------------------------------------------------------------
\* Bounds of the model.
MaxRecords == 5       \* longest record stream walked
MaxGroups == 3        \* longest sequence of sample groups expanded
MaxFiles == 3         \* largest batch
CpuCount == 2         \* os.cpu_count()

----------------------------------------------------------------------------
\* Python values.
None == << >>
Some(v) == <<v>>
Datetime(n) == <<"datetime", n>>
NAN == <<"NAN", 0>>
Get(d, key, default) == IF key \in DOMAIN d THEN d[key] ELSE default
Last(s) == s[Len(s)]

VALID_SELF_REPORT_EVENT_TYPES == {1, 2}

----------------------------------------------------------------------------
\* _process_self_reports with the off branch leaving the detector Active.
process_self_reports_stays_active(timestamp, event_type, df, active, is_event_active_Field) ==
    IF event_type \in VALID_SELF_REPORT_EVENT_TYPES
    THEN IF (~active) /\ (is_event_active_Field = 1)
         THEN <<Append(df, [start_timestamp |-> timestamp,
                            end_timestamp |-> NAN,
                            event_type |-> event_type]),
                TRUE>>
         ELSE IF active /\ (is_event_active_Field = 0)
         THEN <<[df EXCEPT ![Len(df)].end_timestamp = timestamp], TRUE>>
         ELSE <<df, active>>
    ELSE <<df, active>>

\* _process_self_reports opening on every on record, Active or not.
process_self_reports_reopens(timestamp, event_type, df, active, is_event_active_Field) ==
    IF event_type \in VALID_SELF_REPORT_EVENT_TYPES
    THEN IF is_event_active_Field = 1
         THEN <<Append(df, [start_timestamp |-> timestamp,
                            end_timestamp |-> NAN,
                            event_type |-> event_type]),
                TRUE>>
         ELSE IF active /\ (is_event_active_Field = 0)
         THEN <<[df EXCEPT ![Len(df)].end_timestamp = timestamp], FALSE>>
         ELSE <<df, active>>
    ELSE <<df, active>>

\* _process_self_reports without the test of the event type.
process_self_reports_any_code(timestamp, event_type, df, active, is_event_active_Field) ==
    IF (~active) /\ (is_event_active_Field = 1)
    THEN <<Append(df, [start_timestamp |-> timestamp,
                       end_timestamp |-> NAN,
                       event_type |-> event_type]),
           TRUE>>
    ELSE IF active /\ (is_event_active_Field = 0)
    THEN <<[df EXCEPT ![Len(df)].end_timestamp = timestamp], FALSE>>
    ELSE <<df, active>>

\* _process_self_reports: returns <<df_event_self_reports, is_event_active>>.
process_self_reports(timestamp, event_type, df, active, is_event_active_Field) ==
    IF event_type \in VALID_SELF_REPORT_EVENT_TYPES
    THEN IF (~active) /\ (is_event_active_Field = 1)
         THEN <<Append(df, [start_timestamp |-> timestamp,
                            end_timestamp |-> NAN,
                            event_type |-> event_type]),
                TRUE>>
         ELSE IF active /\ (is_event_active_Field = 0)
         THEN <<[df EXCEPT ![Len(df)].end_timestamp = timestamp], FALSE>>
         ELSE <<df, active>>
    ELSE <<df, active>>

\* A walk that starts from what an earlier walk left behind: Active, with
\* that walk's open interval still in the list.
WalkStart_keeps_open ==
    [timestamps |-> << >>, heart_rates |-> << >>, developer_fields |-> << >>,
     df_event_self_reports |->
        <<[start_timestamp |-> Datetime(2), end_timestamp |-> NAN, event_type |-> 2]>>,
     is_event_active |-> TRUE]

\* The state of the record walk at the top of the for loop.
WalkStart ==
    [timestamps |-> << >>, heart_rates |-> << >>, developer_fields |-> << >>,
     df_event_self_reports |-> << >>, is_event_active |-> FALSE]

\* record_step reading the auxiliary fields before the lists are appended:
\* a record with fewer than three developer fields loses its row.
record_step_reads_aux_first(st, record) ==
    IF "timestamp" \notin DOMAIN record
    THEN st
    ELSE LET timestamp == Datetime(record.timestamp)
             heart_rate == IF "heart_rate" \in DOMAIN record
                           THEN Some(record.heart_rate) ELSE None
             dev_fields == Get(record, "developer_fields", << >>)
         IN  IF Len(dev_fields) < 3
             THEN st
             ELSE LET r == process_self_reports(timestamp, dev_fields[3],
                               st.df_event_self_reports,
                               st.is_event_active, dev_fields[2])
                  IN  [st EXCEPT
                         !.timestamps = Append(@, timestamp),
                         !.heart_rates = Append(@, heart_rate),
                         !.developer_fields = Append(@, Some(ToString(dev_fields[1]))),
                         !.df_event_self_reports = r[1],
                         !.is_event_active = r[2]]

\* One iteration of the for loop of _extract_record_data_fast on `record`.
\* A record without a timestamp is skipped.  The three lists are appended
\* before the auxiliary fields are read, so a record with fewer than three
\* developer fields (IndexError, caught by the except) keeps its row and
\* leaves the detector alone.
record_step(st, record) ==
    IF "timestamp" \notin DOMAIN record
    THEN st
    ELSE LET timestamp == Datetime(record.timestamp)
             heart_rate == IF "heart_rate" \in DOMAIN record
                           THEN Some(record.heart_rate) ELSE None
             dev_fields == Get(record, "developer_fields", << >>)
             dev_field == IF dev_fields # << >>
                          THEN Some(ToString(dev_fields[1])) ELSE None
             appended == [st EXCEPT
                            !.timestamps = Append(@, timestamp),
                            !.heart_rates = Append(@, heart_rate),
                            !.developer_fields = Append(@, dev_field)]
         IN  IF Len(dev_fields) < 3
             THEN appended
             ELSE LET r == process_self_reports(timestamp, dev_fields[3],
                               appended.df_event_self_reports,
                               appended.is_event_active, dev_fields[2])
                  IN  [appended EXCEPT !.df_event_self_reports = r[1],
                                       !.is_event_active = r[2]]

\* The end of _extract_record_data_fast dropping an interval left open.
record_result_drops_open(st) ==
    IF st.timestamps = << >>
    THEN None
    ELSE Some(<<[timestamp |-> st.timestamps, heart_rate |-> st.heart_rates,
                 developer_field |-> st.developer_fields],
                SelectSeq(st.df_event_self_reports,
                          LAMBDA row : row.end_timestamp # NAN)>>)

\* The end of _extract_record_data_fast: None without a timestamped record,
\* else the pair (df_records, df_event_self_reports).
record_result(st) ==
    IF st.timestamps = << >>
    THEN None
    ELSE Some(<<[timestamp |-> st.timestamps, heart_rate |-> st.heart_rates,
                 developer_field |-> st.developer_fields],
                st.df_event_self_reports>>)

RECURSIVE record_walk(_, _)
record_walk(st, records) ==
    IF records = << >> THEN st
    ELSE record_walk(record_step(st, Head(records)), Tail(records))

\* _extract_record_data_fast on a decoded MessageTable.
extract_record_data_fast(messages) ==
    IF "record_mesgs" \notin DOMAIN messages
    THEN None
    ELSE record_result(record_walk(WalkStart, messages["record_mesgs"]))

----------------------------------------------------------------------------
\* group_rows stamping every row of a group with the base timestamp alone.
group_rows_ignores_offset(group, axis_prefix) ==
    LET base_timestamp_ms == Get(group, "timestamp_ms", 0)
        sample_offsets == Get(group, "sample_time_offset", << >>)
        x_values == Get(group, axis_prefix \o "_x", << >>)
        y_values == Get(group, axis_prefix \o "_y", << >>)
        z_values == Get(group, axis_prefix \o "_z", << >>)
    IN  IF ~(/\ Len(x_values) = Len(y_values)
             /\ Len(y_values) = Len(z_values)
             /\ Len(z_values) = Len(sample_offsets))
        THEN << >>
        ELSE [i \in 1..Len(sample_offsets) |->
                [timestamp |-> Datetime(base_timestamp_ms),
                 x |-> x_values[i], y |-> y_values[i], z |-> z_values[i]]]

\* group_rows without the length check: a group of unequal sequences gives
\* the rows of its first index.
group_rows_partial(group, axis_prefix) ==
    LET base_timestamp_ms == Get(group, "timestamp_ms", 0)
        sample_offsets == Get(group, "sample_time_offset", << >>)
        x_values == Get(group, axis_prefix \o "_x", << >>)
        y_values == Get(group, axis_prefix \o "_y", << >>)
        z_values == Get(group, axis_prefix \o "_z", << >>)
        usable == IF \E v \in {sample_offsets, x_values, y_values, z_values} : v = << >>
                  THEN 0
                  ELSE IF (/\ Len(x_values) = Len(y_values)
                           /\ Len(y_values) = Len(z_values)
                           /\ Len(z_values) = Len(sample_offsets))
                  THEN Len(sample_offsets) ELSE 1
    IN  [i \in 1..usable |->
            [timestamp |-> Datetime(base_timestamp_ms + sample_offsets[i]),
             x |-> x_values[i], y |-> y_values[i], z |-> z_values[i]]]

\* _extract_sensor_data_fast.  A group is a dict; group.get(key, default).
\* The rows of one group: none when the four sequences differ in length,
\* else one row per index with timestamp = base + offset (milliseconds).
group_rows(group, axis_prefix) ==
    LET base_timestamp_ms == Get(group, "timestamp_ms", 0)
        sample_offsets == Get(group, "sample_time_offset", << >>)
        x_values == Get(group, axis_prefix \o "_x", << >>)
        y_values == Get(group, axis_prefix \o "_y", << >>)
        z_values == Get(group, axis_prefix \o "_z", << >>)
    IN  IF ~(/\ Len(x_values) = Len(y_values)
             /\ Len(y_values) = Len(z_values)
             /\ Len(z_values) = Len(sample_offsets))
        THEN << >>
        ELSE [i \in 1..Len(sample_offsets) |->
                [timestamp |-> Datetime(base_timestamp_ms + sample_offsets[i]),
                 x |-> x_values[i], y |-> y_values[i], z |-> z_values[i]]]

RECURSIVE sensor_rows(_, _)
sensor_rows(groups, axis_prefix) ==
    IF groups = << >> THEN << >>
    ELSE group_rows(Head(groups), axis_prefix)
         \o sensor_rows(Tail(groups), axis_prefix)

\* Lines 63-68: the message key and the axis prefix of a sensor type.
message_key_of(type) ==
    IF type = "accelerometer" THEN "accelerometer_data_mesgs" ELSE "gyroscope_data_mesgs"
axis_prefix_of(type) ==
    IF type = "accelerometer" THEN "calibrated_accel" ELSE "calibrated_gyro"

\* The end of _extract_sensor_data_fast returning an empty table for no row.
sensor_result_empty_table(rows) == Some(rows)

\* The end of _extract_sensor_data_fast (lines 111-121): None when no row
\* resulted, else the DataFrame of the rows.
sensor_result(rows) == IF rows = << >> THEN None ELSE Some(rows)

\* None when the message type is absent or no row results, else the rows.
extract_sensor_data_fast(messages, type) ==
    IF message_key_of(type) \notin DOMAIN messages
    THEN None
    ELSE sensor_result(sensor_rows(messages[message_key_of(type)],
                                   axis_prefix_of(type)))

----------------------------------------------------------------------------
\* A FIT file: how the Garmin decoder fares on it ("ok", "errors": it
\* returns a non-empty error list, "raise": it raises) and the MessageTable
\* it yields.
OutputTables == {"accelerometer", "gyroscope", "records", "self_reports"}

\* The tables on disk once the to_csv calls behind `paths` have run.
files_written(paths) ==
    {p \in OutputTables : \E i \in 1..Len(paths) : paths[i] = Some(p)}

\* decode_file whose except branch also returns True.
decode_file_always_true(file) == TRUE

\* decode_file: TRUE unless the decoder raised; decoder errors only warn.
decode_file(file) == file.decode # "raise"

\* process_to_csv writing the self-reports table only when it has a row.
process_to_csv_skips_empty_self_reports(file) ==
    IF ~decode_file(file)
    THEN [written |-> {}, raised |-> FALSE, ret |-> <<None, None, None>>]
    ELSE LET accel_df == extract_sensor_data_fast(file.messages, "accelerometer")
             gyro_df == extract_sensor_data_fast(file.messages, "gyroscope")
             sensor_paths ==
                 <<IF accel_df # None THEN Some("accelerometer") ELSE None,
                   IF gyro_df # None THEN Some("gyroscope") ELSE None>>
             extracted == extract_record_data_fast(file.messages)
         IN  IF extracted = None
             THEN [written |-> files_written(sensor_paths), raised |-> TRUE,
                   ret |-> None]
             ELSE LET paths == sensor_paths \o
                          <<Some("records"),
                            IF extracted[1][2] # << >>
                            THEN Some("self_reports") ELSE None>>
                  IN  [written |-> files_written(paths), raised |-> FALSE,
                       ret |-> paths]

\* process_to_csv: the tables written to disk, and either the tuple of paths
\* returned or the exception raised.  The sensor tables are written before
\* the record walk; the unpacking at line 244 of a None result raises
\* TypeError after they are on disk.
process_to_csv(file) ==
    IF ~decode_file(file)
    THEN [written |-> {}, raised |-> FALSE, ret |-> <<None, None, None>>]
    ELSE LET accel_df == extract_sensor_data_fast(file.messages, "accelerometer")
             gyro_df == extract_sensor_data_fast(file.messages, "gyroscope")
             sensor_paths ==
                 <<IF accel_df # None THEN Some("accelerometer") ELSE None,
                   IF gyro_df # None THEN Some("gyroscope") ELSE None>>
             extracted == extract_record_data_fast(file.messages)
         IN  IF extracted = None
             THEN [written |-> files_written(sensor_paths), raised |-> TRUE,
                   ret |-> None]
             ELSE LET record_df == Some(extracted[1][1])
                      self_report_event_df == Some(extracted[1][2])
                      paths == sensor_paths \o
                          <<IF record_df # None THEN Some("records") ELSE None,
                            IF self_report_event_df # None
                            THEN Some("self_reports") ELSE None>>
                  IN  [written |-> files_written(paths), raised |-> FALSE,
                       ret |-> paths]

\* The rows process_to_csv writes to <stem>_self_reports.csv (lines 255-258):
\* the second table of the record walk; None when nothing is written (the
\* file does not decode, or the walk returned None and line 244 raised).
self_report_event_csv(file) ==
    IF ~decode_file(file)
    THEN None
    ELSE LET extracted == extract_record_data_fast(file.messages)
         IN  IF extracted = None THEN None ELSE Some(extracted[1][2])

\* process_single_file: an exception of process_to_csv propagates; else
\* success = any(path is not None for path in results).
process_single_file(file) ==
    LET results == process_to_csv(file)
    IN  IF results.raised
        THEN [status |-> "raised", success |-> FALSE, written |-> results.written]
        ELSE [status |-> "returned",
              success |-> \E i \in 1..Len(results.ret) : results.ret[i] # None,
              written |-> results.written]

----------------------------------------------------------------------------
\* The records a stream is drawn from; the record at position k (from 1)
\* carries timestamp k, so streams are chronological.
FlagValues == {0, 1}        \* active-flag values: off and on
EventCodes == {1, 2, 3}     \* the two recognized codes and an unrecognized one

AuxRecord(t, flag, code) ==
    [timestamp |-> t, heart_rate |-> 60, developer_fields |-> <<7, flag, code>>]

RecordInputs(t) ==
    { AuxRecord(t, flag, code) : flag \in FlagValues, code \in EventCodes }
    \cup { AuxRecord(t, 2, 1),                                      \* a flag neither 0 nor 1
           [heart_rate |-> 60, developer_fields |-> <<7, 1, 1>>],   \* no timestamp
           [timestamp |-> t],                                       \* no developer_fields
           [timestamp |-> t, heart_rate |-> 60, developer_fields |-> << >>],
           [timestamp |-> t, heart_rate |-> 60, developer_fields |-> <<7, 1>>] }

SensorOff ==
    /\ sensor_type = "accelerometer"
    /\ has_sensor_mesgs = FALSE
    /\ sensor_messages = << >>
    /\ all_rows = << >>
    /\ sensor_pc = "off"
    /\ sensor_ret = None

BatchOff ==
    /\ fit_files = << >>
    /\ use_multiprocessing = FALSE
    /\ batch_pc = "off"
    /\ next_file = 0
    /\ future_state = << >>
    /\ unit_outcome = << >>
    /\ written = << >>
    /\ self_report_csv = << >>
    /\ success_count = 0
    /\ reported = << >>

WalkInit ==
    /\ has_record_mesgs \in BOOLEAN
    /\ record_messages = << >>
    /\ timestamps = WalkStart.timestamps
    /\ heart_rates = WalkStart.heart_rates
    /\ developer_fields = WalkStart.developer_fields
    /\ df_event_self_reports = WalkStart.df_event_self_reports
    /\ is_event_active = WalkStart.is_event_active
    /\ walk_pc = "loop"
    /\ walk_ret = None
    /\ BatchOff
    /\ SensorOff

WalkState ==
    [timestamps |-> timestamps, heart_rates |-> heart_rates,
     developer_fields |-> developer_fields,
     df_event_self_reports |-> df_event_self_reports,
     is_event_active |-> is_event_active]

\* The for loop takes the next record of the stream.
WalkRecord ==
    /\ walk_pc = "loop"
    /\ has_record_mesgs
    /\ Len(record_messages) < MaxRecords
    /\ \E record \in RecordInputs(Len(record_messages) + 1) :
         LET st == record_step(WalkState, record)
         IN  /\ record_messages' = Append(record_messages, record)
             /\ timestamps' = st.timestamps
             /\ heart_rates' = st.heart_rates
             /\ developer_fields' = st.developer_fields
             /\ df_event_self_reports' = st.df_event_self_reports
             /\ is_event_active' = st.is_event_active
    /\ UNCHANGED <<has_record_mesgs, walk_pc, walk_ret, batch_vars, sensor_vars>>

\* The stream ends (or 'record_mesgs' is missing): the function returns.
WalkReturn ==
    /\ walk_pc = "loop"
    /\ walk_ret' = IF has_record_mesgs THEN record_result(WalkState) ELSE None
    /\ walk_pc' = "returned"
    /\ UNCHANGED <<record_messages, has_record_mesgs, timestamps, heart_rates,
                   developer_fields, df_event_self_reports, is_event_active,
                   batch_vars, sensor_vars>>

WalkNext == WalkRecord \/ WalkReturn

SpecWalk == WalkInit /\ [][WalkNext]_vars

----------------------------------------------------------------------------
\* The files a batch is drawn from.
AccelGroup ==
    [timestamp_ms |-> 1000, sample_time_offset |-> <<0, 40>>,
     calibrated_accel_x |-> <<1, 2>>, calibrated_accel_y |-> <<3, 4>>,
     calibrated_accel_z |-> <<5, 6>>]
GyroGroup ==
    [timestamp_ms |-> 1000, sample_time_offset |-> <<0, 40>>,
     calibrated_gyro_x |-> <<1, 2>>, calibrated_gyro_y |-> <<3, 4>>,
     calibrated_gyro_z |-> <<5, 6>>]
MalformedGyroGroup ==
    [timestamp_ms |-> 1000, sample_time_offset |-> <<0, 40>>,
     calibrated_gyro_x |-> <<1>>, calibrated_gyro_y |-> <<3, 4>>,
     calibrated_gyro_z |-> <<5, 6>>]
RecordStream == <<AuxRecord(1, 0, 1), AuxRecord(2, 1, 1), AuxRecord(3, 0, 1)>>

CorruptFile == [decode |-> "raise", messages |-> << >>]
FullFile ==
    [decode |-> "ok",
     messages |-> [accelerometer_data_mesgs |-> <<AccelGroup>>,
                   gyroscope_data_mesgs |-> <<GyroGroup>>,
                   record_mesgs |-> RecordStream]]
AccelOnlyFile ==
    [decode |-> "ok", messages |-> [accelerometer_data_mesgs |-> <<AccelGroup>>]]
RecordsOnlyFile ==
    [decode |-> "errors",
     messages |-> [gyroscope_data_mesgs |-> <<MalformedGyroGroup>>,
                   record_mesgs |-> RecordStream]]
NoTimestampFile ==
    [decode |-> "ok",
     messages |-> [gyroscope_data_mesgs |-> <<GyroGroup>>,
                   record_mesgs |-> <<[heart_rate |-> 60]>>]]
EmptyFile == [decode |-> "ok", messages |-> << >>]
\* A file whose record stream ends on an on record: its interval stays open.
OpenEndedFile ==
    [decode |-> "ok",
     messages |-> [record_mesgs |-> <<AuxRecord(1, 0, 1), AuxRecord(2, 1, 2)>>]]

\* A file whose records have timestamps but never open an interval.
NoIntervalFile ==
    [decode |-> "ok",
     messages |-> [record_mesgs |-> <<[timestamp |-> 1, heart_rate |-> 60],
                                      AuxRecord(2, 0, 1), AuxRecord(3, 1, 3)>>]]

SampleFiles ==
    {CorruptFile, FullFile, AccelOnlyFile, RecordsOnlyFile, NoTimestampFile, EmptyFile,
     OpenEndedFile, NoIntervalFile}

\* Every batch of at most n files.
Batches(n) == UNION {[1..k -> SampleFiles] : k \in 0..n}

NotRun == [status |-> "not_run", success |-> FALSE, written |-> {}]

WalkOff ==
    /\ record_messages = << >>
    /\ has_record_mesgs = FALSE
    /\ timestamps = << >>
    /\ heart_rates = << >>
    /\ developer_fields = << >>
    /\ df_event_self_reports = << >>
    /\ is_event_active = FALSE
    /\ walk_pc = "off"
    /\ walk_ret = None

BatchInit ==
    /\ fit_files \in Batches(MaxFiles)
    /\ use_multiprocessing \in BOOLEAN
    /\ batch_pc = "start"
    /\ next_file = 0
    /\ future_state = [i \in 1..Len(fit_files) |-> "none"]
    /\ unit_outcome = [i \in 1..Len(fit_files) |-> NotRun]
    /\ written = [i \in 1..Len(fit_files) |-> {}]
    /\ self_report_csv = [i \in 1..Len(fit_files) |-> None]
    /\ success_count = 0
    /\ reported = << >>
    /\ WalkOff
    /\ SensorOff

----------------------------------------------------------------------------
\* One call of _extract_sensor_data_fast, group by group.
\* A SensorSampleGroup message of the given axis prefix.
Group(axis_prefix, base, offsets, x, y, z) ==
    [k \in {"timestamp_ms", "sample_time_offset", axis_prefix \o "_x",
            axis_prefix \o "_y", axis_prefix \o "_z"} |->
        CASE k = "timestamp_ms" -> base
          [] k = "sample_time_offset" -> offsets
          [] k = axis_prefix \o "_x" -> x
          [] k = axis_prefix \o "_y" -> y
          [] OTHER -> z]
Without(group, key) == [k \in DOMAIN group \ {key} |-> group[k]]

\* The groups a message sequence is drawn from: three well-formed ones (of
\* two, one and no sample), one without its base timestamp, and three whose
\* sequences differ in length (one by a missing field).
GroupInputs(axis_prefix) ==
    { Group(axis_prefix, 1000, <<0, 40>>, <<1, 2>>, <<3, 4>>, <<5, 6>>),
      Group(axis_prefix, 2000, <<10>>, <<7>>, <<8>>, <<9>>),
      Group(axis_prefix, 3000, << >>, << >>, << >>, << >>),
      Without(Group(axis_prefix, 2000, <<10>>, <<7>>, <<8>>, <<9>>), "timestamp_ms"),
      Group(axis_prefix, 1000, <<0, 40>>, <<1>>, <<3, 4>>, <<5, 6>>),
      Group(axis_prefix, 1000, <<0, 40, 80>>, <<1, 2>>, <<3, 4>>, <<5, 6>>),
      Without(Group(axis_prefix, 1000, <<0, 40>>, <<1, 2>>, <<3, 4>>, <<5, 6>>),
              axis_prefix \o "_z") }

SensorInit ==
    /\ sensor_type \in {"accelerometer", "gyroscope"}
    /\ has_sensor_mesgs \in BOOLEAN
    /\ sensor_messages = << >>
    /\ all_rows = << >>
    /\ sensor_pc = "loop"
    /\ sensor_ret = None
    /\ WalkOff
    /\ BatchOff

\* One iteration of the for loop over the groups (lines 85-109).
SensorGroup ==
    /\ sensor_pc = "loop"
    /\ has_sensor_mesgs
    /\ Len(sensor_messages) < MaxGroups
    /\ \E group \in GroupInputs(axis_prefix_of(sensor_type)) :
         /\ sensor_messages' = Append(sensor_messages, group)
         /\ all_rows' = all_rows \o group_rows(group, axis_prefix_of(sensor_type))
    /\ UNCHANGED <<sensor_type, has_sensor_mesgs, sensor_pc, sensor_ret,
                   walk_vars, batch_vars>>

\* The groups are exhausted (or the message type is missing, lines 73-75):
\* the function returns.
SensorReturn ==
    /\ sensor_pc = "loop"
    /\ sensor_ret' = IF has_sensor_mesgs THEN sensor_result(all_rows) ELSE None
    /\ sensor_pc' = "returned"
    /\ UNCHANGED <<sensor_type, has_sensor_mesgs, sensor_messages, all_rows,
                   walk_vars, batch_vars>>

SensorNext == SensorGroup \/ SensorReturn

SpecSensor == SensorInit /\ [][SensorNext]_vars

\* max_workers without the cap of os.cpu_count().
max_workers_one_per_file == Len(fit_files)

max_workers == IF Len(fit_files) < CpuCount THEN Len(fit_files) ELSE CpuCount

\* process_all_files, lines 292-296: no file found, return without a summary.
NoFitFiles ==
    /\ batch_pc = "start"
    /\ fit_files = << >>
    /\ batch_pc' = "done"
    /\ UNCHANGED <<fit_files, use_multiprocessing, next_file, future_state,
                   unit_outcome, written, success_count, reported,
                   self_report_csv, walk_vars, sensor_vars>>

\* Lines 306-310: the pool branch is taken and the executor is created;
\* nothing is submitted yet.
StartPool ==
    /\ batch_pc = "start"
    /\ use_multiprocessing /\ Len(fit_files) > 1
    /\ batch_pc' = "pool"
    /\ UNCHANGED <<fit_files, use_multiprocessing, next_file, future_state,
                   unit_outcome, written, success_count, reported,
                   self_report_csv, walk_vars, sensor_vars>>

\* Lines 312-315: one executor.submit of the dict comprehension, file by
\* file in list order.  Workers run while later files are still unsubmitted.
Submit(i) ==
    /\ batch_pc = "pool"
    /\ future_state[i] = "none"
    /\ \A j \in 1..(i - 1) : future_state[j] # "none"
    /\ future_state' = [future_state EXCEPT ![i] = "queued"]
    /\ UNCHANGED <<fit_files, use_multiprocessing, batch_pc, next_file,
                   unit_outcome, written, success_count, reported,
                   self_report_csv, walk_vars, sensor_vars>>

\* A free worker of the pool takes the oldest queued unit.
WorkerStart(i) ==
    /\ batch_pc = "pool"
    /\ future_state[i] = "queued"
    /\ \A j \in 1..(i - 1) : future_state[j] # "queued"
    /\ Cardinality({j \in DOMAIN future_state : future_state[j] = "running"})
         < max_workers
    /\ future_state' = [future_state EXCEPT ![i] = "running"]
    /\ UNCHANGED <<fit_files, use_multiprocessing, batch_pc, next_file,
                   unit_outcome, written, success_count, reported,
                   self_report_csv, walk_vars, sensor_vars>>

\* The worker runs process_single_file to its return or its exception.
WorkerFinish(i) ==
    /\ batch_pc = "pool"
    /\ future_state[i] = "running"
    /\ LET outcome == process_single_file(fit_files[i])
       IN  /\ unit_outcome' = [unit_outcome EXCEPT ![i] = outcome]
           /\ written' = [written EXCEPT ![i] = outcome.written]
    /\ self_report_csv' = [self_report_csv EXCEPT
                              ![i] = self_report_event_csv(fit_files[i])]
    /\ future_state' = [future_state EXCEPT ![i] = "finished"]
    /\ UNCHANGED <<fit_files, use_multiprocessing, batch_pc, next_file,
                   success_count, reported, walk_vars, sensor_vars>>

\* The collection loop counting every completed future, successful or not.
Collect_counts_every_unit(i) ==
    /\ batch_pc = "pool"
    /\ \A j \in DOMAIN future_state : future_state[j] # "none"
    /\ future_state[i] = "finished"
    /\ future_state' = [future_state EXCEPT ![i] = "collected"]
    /\ success_count' = success_count + 1
    /\ UNCHANGED <<fit_files, use_multiprocessing, batch_pc, next_file,
                   unit_outcome, written, reported,
                   self_report_csv, walk_vars, sensor_vars>>

\* Lines 318-325: once every file is submitted, as_completed yields a
\* finished future; future.result() returns the unit's pair or re-raises
\* its exception, which is caught.
Collect(i) ==
    /\ batch_pc = "pool"
    /\ \A j \in DOMAIN future_state : future_state[j] # "none"
    /\ future_state[i] = "finished"
    /\ future_state' = [future_state EXCEPT ![i] = "collected"]
    /\ success_count' = IF unit_outcome[i].status = "returned"
                           /\ unit_outcome[i].success
                        THEN success_count + 1 ELSE success_count
    /\ UNCHANGED <<fit_files, use_multiprocessing, batch_pc, next_file,
                   unit_outcome, written, reported,
                   self_report_csv, walk_vars, sensor_vars>>

\* The as_completed loop and the with block end once every future is done.
PoolDone ==
    /\ batch_pc = "pool"
    /\ \A i \in DOMAIN future_state : future_state[i] = "collected"
    /\ batch_pc' = "summary"
    /\ UNCHANGED <<fit_files, use_multiprocessing, next_file, future_state,
                   unit_outcome, written, success_count, reported,
                   self_report_csv, walk_vars, sensor_vars>>

\* Lines 326-328: the sequential branch.
StartSequential ==
    /\ batch_pc = "start"
    /\ fit_files # << >>
    /\ ~(use_multiprocessing /\ Len(fit_files) > 1)
    /\ batch_pc' = "sequential"
    /\ next_file' = 1
    /\ UNCHANGED <<fit_files, use_multiprocessing, future_state, unit_outcome,
                   written, success_count, reported,
                   self_report_csv, walk_vars, sensor_vars>>

\* One iteration of the sequential for loop (lines 328-332): the call is not
\* guarded, so an exception of the unit leaves process_all_files.
SequentialFile ==
    /\ batch_pc = "sequential"
    /\ next_file <= Len(fit_files)
    /\ LET outcome == process_single_file(fit_files[next_file])
       IN  /\ unit_outcome' = [unit_outcome EXCEPT ![next_file] = outcome]
           /\ written' = [written EXCEPT ![next_file] = outcome.written]
           /\ IF outcome.status = "raised"
              THEN /\ batch_pc' = "raised"
                   /\ UNCHANGED <<next_file, success_count>>
              ELSE /\ success_count' = IF outcome.success
                                       THEN success_count + 1 ELSE success_count
                   /\ next_file' = next_file + 1
                   /\ UNCHANGED batch_pc
    /\ self_report_csv' = [self_report_csv EXCEPT
                              ![next_file] = self_report_event_csv(fit_files[next_file])]
    /\ UNCHANGED <<fit_files, use_multiprocessing, future_state, reported,
                   walk_vars, sensor_vars>>

SequentialDone ==
    /\ batch_pc = "sequential"
    /\ next_file > Len(fit_files)
    /\ batch_pc' = "summary"
    /\ UNCHANGED <<fit_files, use_multiprocessing, next_file, future_state,
                   unit_outcome, written, success_count, reported,
                   self_report_csv, walk_vars, sensor_vars>>

\* Lines 334-337: the summary line.
Summary ==
    /\ batch_pc = "summary"
    /\ reported' = <<success_count, Len(fit_files)>>
    /\ batch_pc' = "done"
    /\ UNCHANGED <<fit_files, use_multiprocessing, next_file, future_state,
                   unit_outcome, written, success_count, self_report_csv,
                   walk_vars, sensor_vars>>

BatchNext ==
    \/ NoFitFiles
    \/ StartPool
    \/ \E i \in DOMAIN fit_files : Submit(i)
    \/ \E i \in DOMAIN fit_files : WorkerStart(i)
    \/ \E i \in DOMAIN fit_files : WorkerFinish(i)
    \/ \E i \in DOMAIN fit_files : Collect(i)
    \/ PoolDone
    \/ StartSequential
    \/ SequentialFile
    \/ SequentialDone
    \/ Summary

SpecBatch == BatchInit /\ [][BatchNext]_vars

\* The sequential branch as a whole (lines 328-337) on a batch: the loop
\* from file i on with the tables written and the count so far, then the
\* summary, unless a unit raised, which ends process_all_files at once.
RECURSIVE sequential_loop(_, _, _, _)
sequential_loop(files, i, written_so_far, count) ==
    IF i > Len(files)
    THEN [raised |-> FALSE, written |-> written_so_far,
          reported |-> <<count, Len(files)>>]
    ELSE LET outcome == process_single_file(files[i])
             now_written == [written_so_far EXCEPT ![i] = outcome.written]
         IN  IF outcome.status = "raised"
             THEN [raised |-> TRUE, written |-> now_written, reported |-> << >>]
             ELSE sequential_loop(files, i + 1, now_written,
                                  IF outcome.success THEN count + 1 ELSE count)

sequential_run(files) ==
    sequential_loop(files, 1, [i \in 1..Len(files) |-> {}], 0)

\* sequential_run is the sequential branch of the model: where that branch
\* has ended, its state is the value of sequential_run.
SequentialRunAgrees ==
    (batch_pc \in {"done", "raised"} /\ fit_files # << >>
       /\ ~(use_multiprocessing /\ Len(fit_files) > 1)) =>
      LET run == sequential_run(fit_files)
      IN  /\ run.raised = (batch_pc = "raised")
          /\ run.written = written
          /\ run.reported = reported

Init == WalkInit \/ BatchInit \/ SensorInit
Next == WalkNext \/ BatchNext \/ SensorNext
Spec == Init /\ [][Next]_vars

----------------------------------------------------------------------------
\* Properties of the record walk (SpecWalk).

\* A record that reaches the detector: it has a timestamp and the two
\* auxiliary developer fields.
HasAux(record) ==
    /\ "timestamp" \in DOMAIN record
    /\ "developer_fields" \in DOMAIN record
    /\ Len(record.developer_fields) >= 3
FlagOf(record) == record.developer_fields[2]
CodeOf(record) == record.developer_fields[3]

\* In a stream s whose records all reach the detector, the records whose
\* flag is on (1) are exactly those from position a to b - 1: s has one
\* Idle-to-on transition, at a, and one later off transition, at b.
OneOnOneOff(s, a, b) ==
    /\ 1 <= a /\ a < b /\ b <= Len(s)
    /\ \A k \in 1..Len(s) : FlagOf(s[k]) = 1 <=> (a <= k /\ k < b)

\* The walk has just taken a record that reaches the detector.
TookAux == record_messages' # record_messages /\ HasAux(Last(record_messages'))

\* C1 as stated: a stream with one on transition to a recognized code (at
\* record a) and one later off transition (at record b) returns exactly the
\* interval (timestamp of a, timestamp of b, code of a).
C1_OpenClosePairing ==
    (/\ walk_pc = "returned"
     /\ \A k \in 1..Len(record_messages) : HasAux(record_messages[k])) =>
        \A a \in 1..Len(record_messages) : \A b \in (a + 1)..Len(record_messages) :
          (/\ OneOnOneOff(record_messages, a, b)
           /\ CodeOf(record_messages[a]) \in VALID_SELF_REPORT_EVENT_TYPES) =>
            /\ walk_ret # None
            /\ walk_ret[1][2] =
                 <<[start_timestamp |-> Datetime(record_messages[a].timestamp),
                    end_timestamp |-> Datetime(record_messages[b].timestamp),
                    event_type |-> CodeOf(record_messages[a])]>>

\* The records from position b on that close an open interval: flag 0 and
\* a recognized code.
Closers(s, b) ==
    {k \in b..Len(s) : FlagOf(s[k]) = 0
                        /\ CodeOf(s[k]) \in VALID_SELF_REPORT_EVENT_TYPES}

\* C1 amended: such a stream returns exactly one interval, of the type of
\* record a and starting at its timestamp; it ends at the timestamp of the
\* first record from b on whose flag is 0 and whose code is recognized
\* (whatever the codes of the other records), and stays open ('NAN') when
\* the stream has no such record.
C1_PairingRecognizedOff ==
    (/\ walk_pc = "returned"
     /\ \A k \in 1..Len(record_messages) : HasAux(record_messages[k])) =>
        \A a \in 1..Len(record_messages) : \A b \in (a + 1)..Len(record_messages) :
          (/\ OneOnOneOff(record_messages, a, b)
           /\ CodeOf(record_messages[a]) \in VALID_SELF_REPORT_EVENT_TYPES) =>
            LET closers == Closers(record_messages, b)
                first == CHOOSE k \in closers : \A j \in closers : k <= j
            IN  /\ walk_ret # None
                /\ walk_ret[1][2] =
                     <<[start_timestamp |-> Datetime(record_messages[a].timestamp),
                        end_timestamp |->
                            IF closers = {} THEN NAN
                            ELSE Datetime(record_messages[first].timestamp),
                        event_type |-> CodeOf(record_messages[a])]>>

\* An interval opened with code 1; an on record of code 2 and an off record
\* of unrecognized code changed nothing; the off record of code 2 closed it.
C1_Witness ==
    /\ walk_pc = "returned"
    /\ record_messages = <<AuxRecord(1, 0, 2), AuxRecord(2, 1, 1), AuxRecord(3, 1, 2),
                           AuxRecord(4, 0, 3), AuxRecord(5, 0, 2)>>
    /\ walk_ret[1][2] = <<[start_timestamp |-> Datetime(2),
                           end_timestamp |-> Datetime(5),
                           event_type |-> 1]>>

\* C2 as claimed: while Active, every record whose flag is off (0) closes the
\* last interval at its timestamp and makes the detector Idle, whatever its
\* event-type code.
C2_CloseOnOffAnyCode ==
    [][(is_event_active /\ TookAux /\ FlagOf(Last(record_messages')) = 0) =>
         /\ ~is_event_active'
         /\ df_event_self_reports' =
              [df_event_self_reports EXCEPT
                 ![Len(df_event_self_reports)].end_timestamp =
                     Datetime(Last(record_messages').timestamp)]]_vars

\* C2 amended: while Active, every record whose flag is off (0) and whose
\* event-type code is recognized closes the last interval at its timestamp
\* and makes the detector Idle.
C2_CloseOnOffRecognized ==
    [][(/\ is_event_active /\ TookAux
        /\ FlagOf(Last(record_messages')) = 0
        /\ CodeOf(Last(record_messages')) \in VALID_SELF_REPORT_EVENT_TYPES) =>
         /\ ~is_event_active'
         /\ df_event_self_reports' =
              [df_event_self_reports EXCEPT
                 ![Len(df_event_self_reports)].end_timestamp =
                     Datetime(Last(record_messages').timestamp)]]_vars

\* An interval opened with code 1 has just been closed by an off record
\* that carries the other recognized code.
C2_Witness ==
    /\ record_messages # << >>
    /\ HasAux(Last(record_messages))
    /\ FlagOf(Last(record_messages)) = 0
    /\ CodeOf(Last(record_messages)) = 2
    /\ ~is_event_active
    /\ df_event_self_reports # << >>
    /\ Last(df_event_self_reports).event_type = 1
    /\ Last(df_event_self_reports).end_timestamp = Datetime(Len(record_messages))

\* C9: while Active, a record whose flag is on (1), whatever its code,
\* leaves the interval list and the detector state unchanged.
C9_RepeatedOnNoOp ==
    [][(is_event_active /\ TookAux /\ FlagOf(Last(record_messages')) = 1) =>
         UNCHANGED <<df_event_self_reports, is_event_active>>]_vars

\* The detector is Active on an interval of code 1 opened by an earlier
\* record, and the record just taken is an on record of code 2.
C9_Witness ==
    /\ Len(record_messages) >= 2
    /\ HasAux(Last(record_messages))
    /\ FlagOf(Last(record_messages)) = 1
    /\ CodeOf(Last(record_messages)) = 2
    /\ is_event_active
    /\ Len(df_event_self_reports) = 1
    /\ Last(df_event_self_reports).event_type = 1
    /\ Last(df_event_self_reports).start_timestamp # Datetime(Len(record_messages))

\* C10: when the stream ends while the detector is Active, the returned
\* self-report table ends with an interval whose end is 'NAN' and whose
\* start and type are those of an on record k of recognized code after
\* which no off record of recognized code came.
C10_TruncatedStream ==
    (walk_pc = "returned" /\ is_event_active) =>
      /\ walk_ret # None
      /\ walk_ret[1][2] # << >>
      /\ LET row == Last(walk_ret[1][2])
         IN  /\ row.end_timestamp = NAN
             /\ \E k \in 1..Len(record_messages) :
                  /\ HasAux(record_messages[k])
                  /\ FlagOf(record_messages[k]) = 1
                  /\ CodeOf(record_messages[k]) = row.event_type
                  /\ row.event_type \in VALID_SELF_REPORT_EVENT_TYPES
                  /\ row.start_timestamp = Datetime(record_messages[k].timestamp)
                  /\ \A j \in (k + 1)..Len(record_messages) :
                       ~(/\ HasAux(record_messages[j])
                         /\ FlagOf(record_messages[j]) = 0
                         /\ CodeOf(record_messages[j]) \in VALID_SELF_REPORT_EVENT_TYPES)

\* A stream with a closed interval followed by one left open has returned.
C10_Witness ==
    /\ walk_pc = "returned"
    /\ is_event_active
    /\ Len(walk_ret[1][2]) = 2
    /\ walk_ret[1][2][1].end_timestamp # NAN
    /\ walk_ret[1][2][2].end_timestamp = NAN

----------------------------------------------------------------------------
\* Properties of the file unit and the batch orchestrator (SpecBatch).

\* The unit of file i has run to its return or its exception.
HasRun(i) == unit_outcome[i].status # "not_run"

\* C3: for every file, process_single_file reports success = true if and
\* only if at least one output table was written for the file.
C3_SuccessIffOutput ==
    \A i \in DOMAIN fit_files :
       HasRun(i) =>
         ((unit_outcome[i].status = "returned" /\ unit_outcome[i].success)
            <=> (written[i] # {}))

\* The outputs of a decoded file that have data, each taken on its own.
OutputsWithData(file) ==
    {p \in {"accelerometer", "gyroscope"} :
        extract_sensor_data_fast(file.messages, p) # None}
    \cup (IF extract_record_data_fast(file.messages) # None
          THEN {"records", "self_reports"} ELSE {})

\* C4: for a file that decodes, a missing message type makes only its own
\* output absent: the unit returns normally and has written every output
\* that has data.
C4_AbsenceNonFatal ==
    \A i \in DOMAIN fit_files :
       (HasRun(i) /\ fit_files[i].decode # "raise") =>
         /\ unit_outcome[i].status = "returned"
         /\ written[i] = OutputsWithData(fit_files[i])

\* C5: in both dispatch modes an exception of a unit never leaves
\* process_all_files; the run ends with every file processed and the summary
\* reported, counting exactly the units that returned success.
C5_DispatchContainment ==
    /\ batch_pc # "raised"
    /\ (batch_pc = "done" /\ fit_files # << >>) =>
         /\ \A i \in DOMAIN fit_files : HasRun(i)
         /\ reported =
              <<Cardinality({i \in DOMAIN fit_files :
                               unit_outcome[i].status = "returned"
                               /\ unit_outcome[i].success}),
                Len(fit_files)>>

\* C6: a batch run with the worker pool ends with the reported summary and
\* the written tables per file of the same batch run sequentially.
C6_ConcurrencyDeterminism ==
    (batch_pc = "done" /\ use_multiprocessing /\ Len(fit_files) > 1) =>
      /\ reported = sequential_run(fit_files).reported
      /\ written = sequential_run(fit_files).written

\* Exactly one file of the batch cannot be decoded and every other file
\* gets at least one output table written.
OneCorruptFile(files) ==
    /\ Cardinality({i \in DOMAIN files : files[i].decode = "raise"}) = 1
    /\ \A i \in DOMAIN files :
         files[i].decode # "raise" => process_to_csv(files[i]).written # {}

\* C7: such a batch of N files never aborts and reports N - 1 successes out
\* of N, in either dispatch mode.
C7_PerFileIsolation ==
    OneCorruptFile(fit_files) =>
      /\ batch_pc # "raised"
      /\ batch_pc = "done" => reported = <<Len(fit_files) - 1, Len(fit_files)>>

\* C8: a file whose decoding raises gets no output table, its unit returns
\* an all-absent result and success = false, and raises nothing.
C8_DecodeFailureShortCircuit ==
    \A i \in DOMAIN fit_files :
       (HasRun(i) /\ fit_files[i].decode = "raise") =>
         /\ written[i] = {}
         /\ unit_outcome[i] = [status |-> "returned", success |-> FALSE,
                               written |-> {}]
         /\ LET results == process_to_csv(fit_files[i])
            IN  /\ ~results.raised
                /\ \A k \in 1..Len(results.ret) : results.ret[k] = None

\* A sequential batch whose first file could not be decoded has gone on to
\* its second file and reported one success out of two.
C8_Witness ==
    /\ batch_pc = "done"
    /\ ~use_multiprocessing
    /\ Len(fit_files) = 2
    /\ fit_files[1].decode = "raise"
    /\ HasRun(1) /\ HasRun(2)
    /\ reported = <<1, 2>>

----------------------------------------------------------------------------
\* Further properties of the record walk (SpecWalk).

\* C11: a record whose event-type code is not recognized leaves the interval
\* list and the detector state unchanged (it neither opens nor closes), the
\* walk goes on with its row appended, and no interval ever carries an
\* event type outside the recognized codes.
C11_UnrecognizedIgnored ==
    [][/\ (TookAux /\ CodeOf(Last(record_messages'))
                        \notin VALID_SELF_REPORT_EVENT_TYPES) =>
            /\ UNCHANGED <<df_event_self_reports, is_event_active>>
            /\ walk_pc' = "loop"
            /\ timestamps' =
                 Append(timestamps, Datetime(Last(record_messages').timestamp))
       /\ \A k \in 1..Len(df_event_self_reports') :
            df_event_self_reports'[k].event_type
              \in VALID_SELF_REPORT_EVENT_TYPES]_vars

\* An off record of unrecognized code has been taken while Active, after an
\* on record of unrecognized code was taken while Idle: one interval, open.
C11_Witness ==
    /\ Len(record_messages) = 3
    /\ record_messages[1] = AuxRecord(1, 1, 3)
    /\ record_messages[2] = AuxRecord(2, 1, 1)
    /\ record_messages[3] = AuxRecord(3, 0, 3)
    /\ is_event_active
    /\ df_event_self_reports = <<[start_timestamp |-> Datetime(2),
                                  end_timestamp |-> NAN,
                                  event_type |-> 1]>>

----------------------------------------------------------------------------
\* Further properties of the batch orchestrator (SpecBatch).

\* The pool branch is taken.
PoolMode == use_multiprocessing /\ Len(fit_files) > 1

\* The files whose unit returned success = true.
Succeeded == {i \in DOMAIN fit_files :
                unit_outcome[i].status = "returned" /\ unit_outcome[i].success}

\* C12: in pool mode, whatever the completion order, the counter holds
\* exactly the collected units that returned success (each once), the
\* summary comes only after every unit has completed or failed and been
\* collected, and it reports the number of successful units out of the number
\* of files found.
C12_SummaryExact ==
    PoolMode =>
      /\ success_count =
           Cardinality({i \in Succeeded : future_state[i] = "collected"})
      /\ batch_pc \in {"summary", "done"} =>
           \A i \in DOMAIN fit_files : HasRun(i) /\ future_state[i] = "collected"
      /\ reported # << >> =>
           /\ batch_pc = "done"
           /\ reported = <<Cardinality(Succeeded), Len(fit_files)>>

\* The second unit completed with success and was counted while the first,
\* submitted before it, is still running.
C12_Witness ==
    /\ PoolMode
    /\ Len(fit_files) = 3
    /\ future_state[1] = "running"
    /\ future_state[2] = "collected"
    /\ 2 \in Succeeded
    /\ success_count = 1

\* C13: never more than min(number of files, parallelism) units run at
\* once, the others being unsubmitted, queued or done; a batch of one file never gets
\* a pool: its unit runs in the sequential branch of the calling process.
Running == {i \in DOMAIN future_state : future_state[i] = "running"}

C13_BoundedPool ==
    /\ Cardinality(Running) <= CpuCount
    /\ Cardinality(Running) <= Len(fit_files)
    /\ Len(fit_files) = 1 =>
         /\ batch_pc # "pool"
         /\ future_state[1] = "none"
         /\ HasRun(1) => batch_pc \in {"sequential", "summary", "done", "raised"}

\* Three files on two workers: two units run and the third waits.
C13_Witness ==
    /\ batch_pc = "pool"
    /\ Len(fit_files) = 3
    /\ Cardinality(Running) = CpuCount
    /\ future_state[3] = "queued"

----------------------------------------------------------------------------
\* Claims about the sample-group expander (SpecSensor).

\* The step consumed one more sample group; the group it consumed.
TookGroup == Len(sensor_messages') = Len(sensor_messages) + 1
Offsets(group) == Get(group, "sample_time_offset", << >>)
Axis(group, axis) == Get(group, axis_prefix_of(sensor_type) \o axis, << >>)
SameLength(group) ==
    /\ Len(Axis(group, "_x")) = Len(Offsets(group))
    /\ Len(Axis(group, "_y")) = Len(Offsets(group))
    /\ Len(Axis(group, "_z")) = Len(Offsets(group))

\* C14: a sample group whose offsets, x, y and z sequences all have length k
\* adds exactly k rows after the rows already produced, row i carrying the
\* timestamp base + offset[i] and the values x[i], y[i], z[i]; the earlier
\* rows stay where they are, and the table returned is the rows in the order
\* they were produced (group encounter order, index order, no re-sorting).
C14_SampleExpansion ==
    [][/\ (TookGroup /\ SameLength(Last(sensor_messages'))) =>
            LET group == Last(sensor_messages')
                k == Len(Offsets(group))
                n == Len(all_rows)
            IN  /\ Len(all_rows') = n + k
                /\ \A i \in 1..n : all_rows'[i] = all_rows[i]
                /\ \A i \in 1..k :
                     all_rows'[n + i] =
                        [timestamp |-> Datetime(Get(group, "timestamp_ms", 0)
                                                + Offsets(group)[i]),
                         x |-> Axis(group, "_x")[i],
                         y |-> Axis(group, "_y")[i],
                         z |-> Axis(group, "_z")[i]]
       /\ (sensor_pc' = "returned" /\ all_rows' # << >>) =>
            sensor_ret' = Some(all_rows')]_vars

\* A later group with earlier timestamps: the three rows come out in
\* encounter order, not in timestamp order.
C14_Witness ==
    /\ sensor_pc = "returned"
    /\ Len(sensor_messages) = 2
    /\ Get(sensor_messages[1], "timestamp_ms", 0) = 2000
    /\ Get(sensor_messages[2], "timestamp_ms", 0) = 1000
    /\ SameLength(sensor_messages[1]) /\ SameLength(sensor_messages[2])
    /\ sensor_ret = Some(<<[timestamp |-> Datetime(2010), x |-> 7, y |-> 8, z |-> 9],
                           [timestamp |-> Datetime(1000), x |-> 1, y |-> 3, z |-> 5],
                           [timestamp |-> Datetime(1040), x |-> 2, y |-> 4, z |-> 6]>>)

\* The groups of a sequence whose four sequences agree in length.
WellFormedOnly(groups) == SelectSeq(groups, LAMBDA g : SameLength(g))
TableOf(groups) == [key \in {message_key_of(sensor_type)} |-> groups]

\* C15: a sample group whose x, y, z and offset sequences differ in length
\* adds no row and does not end the loop, and the extraction returns what it
\* returns for the same input without the malformed groups.
C15_GroupShape ==
    [][/\ (TookGroup /\ ~SameLength(Last(sensor_messages'))) =>
            /\ all_rows' = all_rows
            /\ sensor_pc' = "loop"
       /\ (sensor_pc' = "returned" /\ has_sensor_mesgs) =>
            sensor_ret' = extract_sensor_data_fast(
                              TableOf(WellFormedOnly(sensor_messages')), sensor_type)]_vars

\* A malformed group between two well-formed ones.
C15_Witness ==
    /\ sensor_pc = "returned"
    /\ Len(sensor_messages) = 3
    /\ SameLength(sensor_messages[1])
    /\ ~SameLength(sensor_messages[2])
    /\ SameLength(sensor_messages[3])
    /\ Len(all_rows) = 3
    /\ sensor_ret = Some(all_rows)

\* C16 as stated: the result for a table in which the message type is present
\* but gives no row differs from the result for a table lacking the type.
C16_NoDataDistinct ==
    (sensor_pc = "returned" /\ has_sensor_mesgs /\ all_rows = << >>) =>
        sensor_ret # extract_sensor_data_fast(<< >>, sensor_type)

\* C16: the result is None exactly when the message type is absent or no
\* row was produced (the two cases give the same None); otherwise it is the
\* non-empty table of rows.
C16_NoDataResult ==
    sensor_pc = "returned" =>
        /\ sensor_ret = None <=> (~has_sensor_mesgs \/ all_rows = << >>)
        /\ sensor_ret # None => sensor_ret = Some(all_rows)
        /\ sensor_ret = None =>
             sensor_ret = extract_sensor_data_fast(<< >>, sensor_type)

\* The message type is present, its groups give no row, and None comes back.
C16_Witness ==
    /\ sensor_pc = "returned"
    /\ has_sensor_mesgs
    /\ Len(sensor_messages) = 2
    /\ all_rows = << >>
    /\ sensor_ret = None

----------------------------------------------------------------------------
\* Further claims about the record walk (SpecWalk).

\* C17 as stated: the flag is on when it equals 1 and off otherwise, so while
\* Active a record of recognized code whose flag is not 1 closes the open
\* interval with its timestamp, and while Idle only a flag of 1 opens one.
C17_FlagByEquality ==
    [][TookAux =>
         LET record == Last(record_messages')
             recognized == CodeOf(record) \in VALID_SELF_REPORT_EVENT_TYPES
         IN  /\ (is_event_active /\ recognized /\ FlagOf(record) # 1) =>
                  /\ ~is_event_active'
                  /\ Len(df_event_self_reports') = Len(df_event_self_reports)
                  /\ Last(df_event_self_reports').end_timestamp
                        = Datetime(record.timestamp)
             /\ (~is_event_active /\ is_event_active') => FlagOf(record) = 1]_vars

\* A record with a timestamp whose developer fields do not reach the flag
\* and the code.
LacksAux(record) == "timestamp" \in DOMAIN record /\ ~HasAux(record)
TookRecord == record_messages' # record_messages

\* C18: a record with a timestamp whose developer_fields are absent, empty or
\* shorter than three entries adds exactly one row (its timestamp, its heart
\* rate if any, its first developer field if any), leaves the interval list
\* and the detector state unchanged, and the walk goes on.
C18_LacksAuxKeepsRow ==
    [][(TookRecord /\ LacksAux(Last(record_messages'))) =>
         LET record == Last(record_messages')
             dev_fields == Get(record, "developer_fields", << >>)
         IN  /\ timestamps' = Append(timestamps, Datetime(record.timestamp))
             /\ heart_rates' = Append(heart_rates,
                                       IF "heart_rate" \in DOMAIN record
                                       THEN Some(record.heart_rate) ELSE None)
             /\ Len(developer_fields') = Len(developer_fields) + 1
             /\ \A k \in 1..Len(developer_fields) :
                  developer_fields'[k] = developer_fields[k]
             /\ Last(developer_fields') = None <=> dev_fields = << >>
             /\ UNCHANGED <<df_event_self_reports, is_event_active>>
             /\ walk_pc' = "loop"]_vars

\* An interval is open; records with absent, empty and two-entry developer
\* fields followed, each adding a row, and the interval is still the open one.
C18_Witness ==
    /\ Len(record_messages) = 4
    /\ record_messages[1] = AuxRecord(1, 1, 2)
    /\ "developer_fields" \notin DOMAIN record_messages[2]
    /\ LacksAux(record_messages[2])
    /\ LacksAux(record_messages[3])
    /\ Get(record_messages[3], "developer_fields", <<0>>) = << >>
    /\ LacksAux(record_messages[4])
    /\ Len(Get(record_messages[4], "developer_fields", << >>)) = 2
    /\ Len(timestamps) = 4
    /\ is_event_active
    /\ df_event_self_reports =
         <<[start_timestamp |-> Datetime(1), end_timestamp |-> NAN, event_type |-> 2]>>

\* The rows of an interval list that carry the open end marker.
OpenRows(df) == {k \in 1..Len(df) : df[k].end_timestamp = NAN}

\* C20: after every record of a walk at most one interval is open, an open
\* interval is the last of the list, the detector is Active iff there is one,
\* and every closed interval ends at the timestamp of a record that comes
\* later in the stream than the record whose timestamp it starts at.
C20_SingleOpenInterval ==
    walk_pc \in {"loop", "returned"} =>
        /\ Cardinality(OpenRows(df_event_self_reports)) <= 1
        /\ \A k \in OpenRows(df_event_self_reports) : k = Len(df_event_self_reports)
        /\ is_event_active <=> OpenRows(df_event_self_reports) # {}
        /\ \A k \in 1..Len(df_event_self_reports) :
             LET row == df_event_self_reports[k]
             IN  row.end_timestamp # NAN =>
                   \E a, b \in 1..Len(record_messages) :
                     /\ a < b
                     /\ HasAux(record_messages[a]) /\ HasAux(record_messages[b])
                     /\ row.start_timestamp = Datetime(record_messages[a].timestamp)
                     /\ row.end_timestamp = Datetime(record_messages[b].timestamp)

\* The walk is under way with two closed intervals behind it and a third
\* one open.
C20_Witness ==
    /\ walk_pc = "loop"
    /\ Len(df_event_self_reports) = 3
    /\ OpenRows(df_event_self_reports) = {3}
    /\ is_event_active

----------------------------------------------------------------------------
\* Claims about the detector across the files of a batch (SpecBatch).

\* The record stream of file i, and its on and off records of recognized code.
RecordsOf(i) == Get(fit_files[i].messages, "record_mesgs", << >>)
Recognized(record) ==
    HasAux(record) /\ CodeOf(record) \in VALID_SELF_REPORT_EVENT_TYPES
IsOn(record) == Recognized(record) /\ FlagOf(record) = 1
IsOff(record) == Recognized(record) /\ FlagOf(record) = 0

\* C19: the detector of a file's walk starts Idle with an empty interval
\* list, whatever was processed before: the table of intervals written for
\* a file comes from that file's records alone,
\* wherever the file stands in the batch: each interval starts at an on
\* record of the file and ends, if it ends, at a later off record of the
\* file; the first on record of the file opens the first interval (no
\* interval of an earlier file suppresses it); a file whose last recognized
\* record is an on record keeps its last interval open (no other file's
\* record closes it); and files with the same records get the same table.
C19_DetectorPerFile ==
    \A i \in DOMAIN fit_files :
         (HasRun(i) /\ self_report_csv[i] # None) =>
           LET df == self_report_csv[i][1]
               recs == RecordsOf(i)
               ons == {a \in 1..Len(recs) : IsOn(recs[a])}
               offs == {b \in 1..Len(recs) : IsOff(recs[b])}
           IN  /\ \A k \in 1..Len(df) :
                    \E a \in ons :
                      /\ df[k].start_timestamp = Datetime(recs[a].timestamp)
                      /\ df[k].event_type = CodeOf(recs[a])
                      /\ \/ df[k].end_timestamp = NAN
                         \/ \E b \in offs :
                              /\ a < b
                              /\ df[k].end_timestamp = Datetime(recs[b].timestamp)
               /\ ons # {} =>
                    /\ df # << >>
                    /\ \E a \in ons :
                         /\ \A c \in ons : a <= c
                         /\ df[1].start_timestamp = Datetime(recs[a].timestamp)
               /\ (ons # {} /\ \A b \in offs : \E a \in ons : b < a) =>
                    Last(df).end_timestamp = NAN
               /\ \A j \in DOMAIN fit_files :
                    (HasRun(j) /\ fit_files[j].messages = fit_files[i].messages
                       /\ decode_file(fit_files[j])) =>
                      self_report_csv[j] = self_report_csv[i]

\* Three files processed one after another in the calling process: two that
\* end with an interval open, then one whose first record is an off record.
\* The second file's on record opened its own interval and the third file's
\* off record closed nothing of the second.
C19_Witness ==
    /\ ~use_multiprocessing
    /\ batch_pc = "done"
    /\ fit_files = <<OpenEndedFile, OpenEndedFile, FullFile>>
    /\ self_report_csv[1] =
         Some(<<[start_timestamp |-> Datetime(2), end_timestamp |-> NAN, event_type |-> 2]>>)
    /\ self_report_csv[2] = self_report_csv[1]
    /\ self_report_csv[3] =
         Some(<<[start_timestamp |-> Datetime(2), end_timestamp |-> Datetime(3),
                 event_type |-> 1]>>)

----------------------------------------------------------------------------
\* Claims about the tables process_to_csv writes (SpecBatch).

\* File i has at least one record with a timestamp.
HasTimestampedRecord(i) ==
    \E k \in 1..Len(RecordsOf(i)) : "timestamp" \in DOMAIN RecordsOf(i)[k]

\* C21: for every file processed, the self-reports table is written if and
\* only if the records table is; a decoded file with at least one record
\* carrying a timestamp gets both, the self-reports table being written even
\* with no interval in it; a file without such a record, or one that does
\* not decode, gets neither.
C21_RecordsSelfReportsCoupled ==
    \A i \in DOMAIN fit_files :
        HasRun(i) =>
          /\ "self_reports" \in written[i] <=> "records" \in written[i]
          /\ "self_reports" \in written[i] <=> self_report_csv[i] # None
          /\ "records" \in written[i] <=>
                (decode_file(fit_files[i]) /\ HasTimestampedRecord(i))

\* A file with three timestamped records and no interval has been processed:
\* its records table and an empty self-reports table are both on disk.
C21_Witness ==
    \E i \in DOMAIN fit_files :
        /\ HasRun(i)
        /\ fit_files[i] = NoIntervalFile
        /\ written[i] = {"records", "self_reports"}
        /\ self_report_csv[i] = Some(<< >>)
        /\ unit_outcome[i].success

====
